---- MODULE Spec2Model ----
(***************************************************************************)
(* Model of the guest-side SCSI attachment layer (package scsi):           *)
(* Mount, ControllerLunToName and UnplugDevice, together with the kernel   *)
(* interfaces they touch (sysfs block listing, sysfs delete file, mount,   *)
(* target directory) and the caller's context.                             *)
(*                                                                         *)
(* Every call is a small state machine whose position is call[c].pc.  The  *)
(* environment (listing contents, control file, context) may change        *)
(* between any two steps of a call.  Every kernel-interface operation a    *)
(* call performs is appended to `trace`.                                   *)
(***************************************************************************)
EXTENDS Integers, Sequences, FiniteSets, TLC

\* Bounds of the model: sleeps allowed in the listing poll loop and in the
\* mount retry loop of one call.
MaxPolls == 2
MaxRetries == 2

\* unix.MS_RDONLY
MS_RDONLY == 1

\* Error values.  "nil" is Go's nil error.
CtxErrors == {"Canceled", "DeadlineExceeded"}

\* (controller, lun) pairs used as inputs of a single call.
Addrs == {<<2, 3>>}

\* Entry names that may show up under .../block, in ReadDir's (sorted) order.
NameLists == {<<>>, <<"sda">>, <<"sdb">>, <<"sda", "sdb">>}

\* States of the block listing of one SCSI id: the directory is absent, a
\* read of it fails with an I/O error, or it exists with the given entries.
Listings ==
    {[st |-> "absent", names |-> <<>>], [st |-> "ioerr", names |-> <<>>]}
        \cup {[st |-> "ok", names |-> n] : n \in NameLists}

VARIABLES call, ctx, ctxEndAt, listing, ctl, dirs, trace

vars == <<call, ctx, ctxEndAt, listing, ctl, dirs, trace>>

----------------------------------------------------------------------------
\* Pure helpers

\* fmt.Sprintf("0:0:%d:%d", controller, lun), kept as its four fields.
ScsiID(controller, lun) == <<0, 0, controller, lun>>

\* filepath.Join("/sys/bus/scsi/devices", scsiID, "block")
BlockPath(scsiID) == <<"sys", "bus", "scsi", "devices", scsiID, "block">>

\* filepath.Join("/sys/bus/scsi/devices", scsiID, "delete")
DeletePath(scsiID) == <<"sys", "bus", "scsi", "devices", scsiID, "delete">>

\* filepath.Join("/dev", name)
DevicePath(name) == <<"dev", name>>

\* os.IsNotExist(err)
IsNotExist(err) == err = "ENOENT"

\* ioutil.ReadDir(blockPath): the entries and the error of one read.
ReadDir(path) ==
    IF path \notin DOMAIN listing \/ listing[path].st = "absent"
    THEN [names |-> <<>>, err |-> "ENOENT"]
    ELSE IF listing[path].st = "ioerr"
         THEN [names |-> <<>>, err |-> "EIO"]
         ELSE [names |-> listing[path].names, err |-> "nil"]

\* <-ctx.Done() is ready
CtxDone(c) == ctx[c] # "active"

\* Variant: the loops return context.Canceled instead of ctx.Err().
CtxErr_AlwaysCanceled(c) == IF ctx[c] = "active" THEN "nil" ELSE "Canceled"

\* ctx.Err()
CtxErr(c) == IF ctx[c] = "active" THEN "nil" ELSE ctx[c]

Log(c, ev, a, r) == Append(trace, [c |-> c, ev |-> ev, a |-> a, r |-> r])

\* The record of a call that has not run yet.
NewCall(op, addr, target, readonly) ==
    [op |-> op, controller |-> addr[1], lun |-> addr[2], target |-> target,
     readonly |-> readonly,
     pc |-> CASE op = "Mount" -> "Mount_mkdir"
              [] op = "Resolve" -> "CLN_entry"
              [] OTHER -> "Unplug_open",
     scsiID |-> <<>>, blockPath |-> <<>>, deviceNames |-> <<>>,
     rerr |-> "nil", retPath |-> <<>>, retErr |-> "nil",
     source |-> <<>>, flags |-> 0, data |-> "", err |-> "nil",
     polls |-> 0, retries |-> 0]

----------------------------------------------------------------------------
\* ControllerLunToName

\* Lines 95-100: build the SCSI id and the listing path.
CLNEntry(c) ==
    /\ call[c].pc = "CLN_entry"
    /\ call' = [call EXCEPT
                  ![c].scsiID = ScsiID(call[c].controller, call[c].lun),
                  ![c].blockPath =
                      BlockPath(ScsiID(call[c].controller, call[c].lun)),
                  ![c].pc = "CLN_read"]
    /\ UNCHANGED <<ctx, ctxEndAt, listing, ctl, dirs, trace>>

\* Line 102: one read of the listing.
CLNRead(c) ==
    /\ call[c].pc = "CLN_read"
    /\ LET rd == ReadDir(call[c].blockPath) IN
         /\ call' = [call EXCEPT ![c].deviceNames = rd.names,
                                 ![c].rerr = rd.err,
                                 ![c].pc = "CLN_check"]
         /\ trace' = Log(c, "read", call[c].blockPath, rd)
    /\ UNCHANGED <<ctx, ctxEndAt, listing, ctl, dirs>>

\* Variant: the read error is returned without the os.IsNotExist test.
AfterRead_NoNotExist(names, rerr) ==
    IF rerr # "nil" THEN "fail"
    ELSE IF Len(names) = 0 THEN "wait"
    ELSE "break"

\* Variant: the loop waits until more than one entry is listed.
AfterRead_WaitsOnOne(names, rerr) ==
    IF rerr # "nil" /\ ~IsNotExist(rerr) THEN "fail"
    ELSE IF Len(names) <= 1 THEN "wait"
    ELSE "break"

\* Variant: every read error is taken as "not there yet".
AfterRead_RetriesAll(names, rerr) ==
    IF Len(names) = 0 THEN "wait" ELSE "break"

\* Variant: a listing that does not exist ends the loop.
AfterRead_BreaksOnNotExist(names, rerr) ==
    IF rerr # "nil" /\ ~IsNotExist(rerr) THEN "fail"
    ELSE IF Len(names) = 0 /\ ~IsNotExist(rerr) THEN "wait"
    ELSE "break"

\* Where control goes after a read (lines 103-115): "fail" returns the read
\* error, "wait" enters the select, "break" leaves the loop.
AfterRead(names, rerr) ==
    IF rerr # "nil" /\ ~IsNotExist(rerr) THEN "fail"
    ELSE IF Len(names) = 0 THEN "wait"
    ELSE "break"

\* The return of ControllerLunToName: to the caller of the public function,
\* or back into Mount (line 52).
CLNReturns(c, path, err) ==
    [call EXCEPT ![c].retPath = path, ![c].retErr = err,
                 ![c].pc = IF call[c].op = "Mount" THEN "Mount_resolved"
                           ELSE "done"]

\* Lines 103-106 and 115.
CLNCheck(c) ==
    /\ call[c].pc = "CLN_check"
    /\ LET d == AfterRead(call[c].deviceNames, call[c].rerr) IN
         call' = IF d = "fail" THEN CLNReturns(c, <<>>, call[c].rerr)
                 ELSE IF d = "wait" THEN [call EXCEPT ![c].pc = "CLN_select"]
                 ELSE [call EXCEPT ![c].pc = "CLN_post"]
    /\ UNCHANGED <<ctx, ctxEndAt, listing, ctl, dirs, trace>>

\* Lines 107-113: the select on ctx.Done().
CLNSelect(c) ==
    /\ call[c].pc = "CLN_select"
    /\ IF CtxDone(c)
       THEN call' = CLNReturns(c, <<>>, CtxErr(c))
       ELSE /\ call[c].polls < MaxPolls
            /\ call' = [call EXCEPT ![c].pc = "CLN_sleep",
                                    ![c].polls = @ + 1]
    /\ trace' = Log(c, "select", "poll", CtxDone(c))
    /\ UNCHANGED <<ctx, ctxEndAt, listing, ctl, dirs>>

\* Variant: after the sleep the listing is not read again.
CLNSleep_NoReread(c) ==
    /\ call[c].pc = "CLN_sleep"
    /\ call' = [call EXCEPT ![c].pc = "CLN_select"]
    /\ trace' = Log(c, "sleep", "poll", 10)
    /\ UNCHANGED <<ctx, ctxEndAt, listing, ctl, dirs>>

\* Lines 111-112: time.Sleep(10ms); continue.
CLNSleep(c) ==
    /\ call[c].pc = "CLN_sleep"
    /\ call' = [call EXCEPT ![c].pc = "CLN_read"]
    /\ trace' = Log(c, "sleep", "poll", 10)
    /\ UNCHANGED <<ctx, ctxEndAt, listing, ctl, dirs>>

\* Variant: without the test for more than one entry.
ResultOf_FirstOfMany(names) ==
    IF Len(names) = 0 THEN [path |-> <<>>, err |-> "nomatch"]
    ELSE [path |-> DevicePath(names[1]), err |-> "nil"]

\* Lines 118-127: the result computed from the listing the loop left with.
ResultOf(names) ==
    IF Len(names) = 0 THEN [path |-> <<>>, err |-> "nomatch"]
    ELSE IF Len(names) > 1 THEN [path |-> <<>>, err |-> "ambiguous"]
    ELSE [path |-> DevicePath(names[1]), err |-> "nil"]

CLNPost(c) ==
    /\ call[c].pc = "CLN_post"
    /\ LET res == ResultOf(call[c].deviceNames) IN
         call' = CLNReturns(c, res.path, res.err)
    /\ UNCHANGED <<ctx, ctxEndAt, listing, ctl, dirs, trace>>

----------------------------------------------------------------------------
\* Mount

\* osMkdirAll(target, 0700) returning r: an existing directory is kept.
osMkdirAll(d, target, r) ==
    IF r = "nil" /\ d[target] = "absent" THEN [d EXCEPT ![target] = "dir"]
    ELSE d

\* Variant: the removal takes the parent directory, and with it every
\* target.
osRemoveAll_Parent(d, target) == [t \in DOMAIN d |-> "absent"]

\* osRemoveAll(target): the path and everything below it is gone.
osRemoveAll(d, target) == [d EXCEPT ![target] = "absent"]

\* Variant: the rollback is deferred before the directory is created.
MountMkdir_DeferFirst(c) ==
    /\ call[c].pc = "Mount_mkdir"
    /\ \E r \in {"nil", "EACCES"} :
         /\ dirs' = osMkdirAll(dirs, call[c].target, r)
         /\ trace' = Log(c, "mkdir",
                         [path |-> call[c].target,
                          existed |-> dirs[call[c].target] # "absent"], r)
         /\ call' = IF r # "nil"
                    THEN [call EXCEPT ![c].err = r, ![c].pc = "Mount_defer"]
                    ELSE [call EXCEPT ![c].pc = "CLN_entry"]
    /\ UNCHANGED <<ctx, ctxEndAt, listing, ctl>>

\* Lines 44-46: create the target; a failure returns before the rollback is
\* registered.  On success the deferred rollback (lines 47-51) is armed and
\* controllerLunToName is entered (line 52).
MountMkdir(c) ==
    /\ call[c].pc = "Mount_mkdir"
    /\ \E r \in {"nil", "EACCES"} :
         /\ dirs' = osMkdirAll(dirs, call[c].target, r)
         /\ trace' = Log(c, "mkdir",
                         [path |-> call[c].target,
                          existed |-> dirs[call[c].target] # "absent"], r)
         /\ call' = IF r # "nil"
                    THEN [call EXCEPT ![c].err = r, ![c].pc = "done"]
                    ELSE [call EXCEPT ![c].pc = "CLN_entry"]
    /\ UNCHANGED <<ctx, ctxEndAt, listing, ctl>>

\* Variant: a read-only mount without the "noload" option.
MountParams_NoNoload(readonly) ==
    IF readonly THEN [flags |-> MS_RDONLY, data |-> ""]
    ELSE [flags |-> 0, data |-> ""]

\* Lines 56-61: mount flags and data.
MountParams(readonly) ==
    IF readonly THEN [flags |-> MS_RDONLY, data |-> "noload"]
    ELSE [flags |-> 0, data |-> ""]

\* Variant: the resolver's error is not tested before mounting.
MountResolved_IgnoresErr(c) ==
    /\ call[c].pc = "Mount_resolved"
    /\ call' = [call EXCEPT
                  ![c].source = call[c].retPath,
                  ![c].err = call[c].retErr,
                  ![c].flags = MountParams(call[c].readonly).flags,
                  ![c].data = MountParams(call[c].readonly).data,
                  ![c].pc = "Mount_mount"]
    /\ UNCHANGED <<ctx, ctxEndAt, listing, ctl, dirs, trace>>

\* Lines 52-61: take the resolver's result; an error returns through the
\* deferred rollback.
MountResolved(c) ==
    /\ call[c].pc = "Mount_resolved"
    /\ call' = IF call[c].retErr # "nil"
               THEN [call EXCEPT ![c].source = call[c].retPath,
                                 ![c].err = call[c].retErr,
                                 ![c].pc = "Mount_defer"]
               ELSE [call EXCEPT
                       ![c].source = call[c].retPath,
                       ![c].err = call[c].retErr,
                       ![c].flags = MountParams(call[c].readonly).flags,
                       ![c].data = MountParams(call[c].readonly).data,
                       ![c].pc = "Mount_mount"]
    /\ UNCHANGED <<ctx, ctxEndAt, listing, ctl, dirs, trace>>

\* Results unixMount can give: success needs the mount point to exist.
MountResults(d, target) ==
    IF d[target] = "absent" THEN {"ENOENT", "EINVAL"}
    ELSE {"nil", "ENOENT", "EINVAL"}

\* Variant: a mount error other than ENOENT leaves the loop without being
\* returned.
AfterMount_SwallowsOthers(merr) ==
    IF merr = "ENOENT" THEN "retry" ELSE "break"

\* Variant: ENOENT is not retried.
AfterMount_NoRetry(merr) ==
    IF merr = "nil" THEN "break" ELSE "fail"

\* Where control goes after a mount attempt (lines 64-79).
AfterMount(merr) ==
    IF merr = "nil" THEN "break"
    ELSE IF merr = "ENOENT" THEN "retry"
    ELSE "fail"

\* Lines 64-68, 77-81: one mount attempt.
MountAttempt(c) ==
    /\ call[c].pc = "Mount_mount"
    /\ \E r \in MountResults(dirs, call[c].target) :
         /\ trace' = Log(c, "mount",
                         [source |-> call[c].source, target |-> call[c].target,
                          fstype |-> "ext4", flags |-> call[c].flags,
                          data |-> call[c].data], r)
         /\ dirs' = IF r = "nil"
                    THEN [dirs EXCEPT ![call[c].target] = "mounted"]
                    ELSE dirs
         /\ call' = CASE AfterMount(r) = "break" ->
                           [call EXCEPT ![c].err = "nil",
                                        ![c].pc = "Mount_defer"]
                      [] AfterMount(r) = "retry" ->
                           [call EXCEPT ![c].pc = "Mount_select"]
                      [] OTHER ->
                           [call EXCEPT ![c].err = r, ![c].pc = "Mount_defer"]
    /\ UNCHANGED <<ctx, ctxEndAt, listing, ctl>>

\* Variant: the return of ctx.Err() does not reach the deferred rollback
\* (the deferred function reads an error variable the return did not set).
MountSelect_EscapesRollback(c) ==
    /\ call[c].pc = "Mount_select"
    /\ IF CtxDone(c)
       THEN call' = [call EXCEPT ![c].err = CtxErr(c), ![c].pc = "done"]
       ELSE /\ call[c].retries < MaxRetries
            /\ call' = [call EXCEPT ![c].pc = "Mount_sleep",
                                    ![c].retries = @ + 1]
    /\ trace' = Log(c, "select", "mount", CtxDone(c))
    /\ UNCHANGED <<ctx, ctxEndAt, listing, ctl, dirs>>

\* Lines 69-75: the select on ctx.Done() after an ENOENT.
MountSelect(c) ==
    /\ call[c].pc = "Mount_select"
    /\ IF CtxDone(c)
       THEN call' = [call EXCEPT ![c].err = CtxErr(c),
                                 ![c].pc = "Mount_defer"]
       ELSE /\ call[c].retries < MaxRetries
            /\ call' = [call EXCEPT ![c].pc = "Mount_sleep",
                                    ![c].retries = @ + 1]
    /\ trace' = Log(c, "select", "mount", CtxDone(c))
    /\ UNCHANGED <<ctx, ctxEndAt, listing, ctl, dirs>>

\* Variant: a retry resolves the address again.
MountSleep_Reresolves(c) ==
    /\ call[c].pc = "Mount_sleep"
    /\ call' = [call EXCEPT ![c].pc = "CLN_entry"]
    /\ trace' = Log(c, "sleep", "mount", 10)
    /\ UNCHANGED <<ctx, ctxEndAt, listing, ctl, dirs>>

\* Lines 73-74: time.Sleep(10ms); continue.
MountSleep(c) ==
    /\ call[c].pc = "Mount_sleep"
    /\ call' = [call EXCEPT ![c].pc = "Mount_mount"]
    /\ trace' = Log(c, "sleep", "mount", 10)
    /\ UNCHANGED <<ctx, ctxEndAt, listing, ctl, dirs>>

\* Variant: the deferred function removes the target on every return.
RollsBack_Always(err) == TRUE

\* Lines 47-51: whether the deferred function removes the target.
RollsBack(err) == err # "nil"

\* Lines 47-51: the deferred rollback, run on every return after line 47.
MountDefer(c) ==
    /\ call[c].pc = "Mount_defer"
    /\ IF RollsBack(call[c].err)
       THEN /\ dirs' = osRemoveAll(dirs, call[c].target)
            /\ trace' = Log(c, "remove", call[c].target, "nil")
       ELSE UNCHANGED <<dirs, trace>>
    /\ call' = [call EXCEPT ![c].pc = "done"]
    /\ UNCHANGED <<ctx, ctxEndAt, listing, ctl>>

----------------------------------------------------------------------------
\* UnplugDevice

\* Results of os.OpenFile(<delete path>, O_WRONLY, 0644).
OpenResults(path) ==
    IF path \notin DOMAIN ctl \/ ~ctl[path] THEN {"ENOENT"}
    ELSE {"nil", "EACCES"}

\* Variant: the trigger is written although the delete file was not found.
AfterOpen_WritesWhenGone(oerr) ==
    IF oerr = "nil" \/ IsNotExist(oerr) THEN "write" ELSE "fail"

\* Variant: every open error is taken as "already gone".
AfterOpen_SwallowsAll(oerr) ==
    IF oerr = "nil" THEN "write" ELSE "gone"

\* Variant: without the os.IsNotExist test on the open error.
AfterOpen_NotExistFails(oerr) ==
    IF oerr = "nil" THEN "write" ELSE "fail"

\* Where control goes after the open (lines 146-151).
AfterOpen(oerr) ==
    IF oerr = "nil" THEN "write"
    ELSE IF IsNotExist(oerr) THEN "gone"
    ELSE "fail"

\* Lines 143-151: open the delete file of the SCSI id.
UnplugOpen(c) ==
    /\ call[c].pc = "Unplug_open"
    /\ LET id == ScsiID(call[c].controller, call[c].lun) IN
       \E r \in OpenResults(DeletePath(id)) :
         /\ trace' = Log(c, "open", DeletePath(id), r)
         /\ call' = CASE AfterOpen(r) = "write" ->
                           [call EXCEPT ![c].scsiID = id,
                                        ![c].pc = "Unplug_write"]
                      [] AfterOpen(r) = "gone" ->
                           [call EXCEPT ![c].scsiID = id, ![c].err = "nil",
                                        ![c].pc = "done"]
                      [] OTHER ->
                           [call EXCEPT ![c].scsiID = id, ![c].err = r,
                                        ![c].pc = "done"]
    /\ UNCHANGED <<ctx, ctxEndAt, listing, ctl, dirs>>

\* Lines 156-158: write "1\n" to the delete file.  A successful write makes
\* the kernel remove the device: its sysfs directory, with the delete file
\* and the block listing, is gone.
UnplugWrite(c) ==
    /\ call[c].pc = "Unplug_write"
    /\ \E r \in {"nil", "EIO"} :
         /\ trace' = Log(c, "write",
                         [file |-> DeletePath(call[c].scsiID),
                          payload |-> <<"1", "\n">>], r)
         /\ IF r = "nil"
            THEN /\ ctl' = [p \in DOMAIN ctl |->
                              IF p = DeletePath(call[c].scsiID) THEN FALSE
                              ELSE ctl[p]]
                 /\ listing' = [p \in DOMAIN listing |->
                                  IF p = BlockPath(call[c].scsiID)
                                  THEN [st |-> "absent", names |-> <<>>]
                                  ELSE listing[p]]
                 /\ call' = [call EXCEPT ![c].pc = "Unplug_kmsg"]
            ELSE /\ UNCHANGED <<ctl, listing>>
                 /\ call' = [call EXCEPT ![c].err = r, ![c].pc = "done"]
    /\ UNCHANGED <<ctx, ctxEndAt, dirs>>

\* Lines 159-165: write the timing message to /dev/kmsg; its error is
\* returned.
UnplugKmsg(c) ==
    /\ call[c].pc = "Unplug_kmsg"
    /\ \E r \in {"nil", "EACCES"} :
         /\ trace' = Log(c, "write",
                         [file |-> <<"dev", "kmsg">>, payload |-> <<"msg">>],
                         r)
         /\ call' = [call EXCEPT ![c].err = r, ![c].pc = "done"]
    /\ UNCHANGED <<ctx, ctxEndAt, listing, ctl, dirs>>

----------------------------------------------------------------------------
\* Environment

\* The kernel changes what a read of the block listing gives.
ListingChange(p) ==
    /\ \E l \in Listings \ {listing[p]} :
         listing' = [listing EXCEPT ![p] = l]
    /\ UNCHANGED <<call, ctx, ctxEndAt, ctl, dirs, trace>>

\* The delete file of a SCSI id appears or disappears.
CtlChange(p) ==
    /\ ctl' = [ctl EXCEPT ![p] = ~ctl[p]]
    /\ UNCHANGED <<call, ctx, ctxEndAt, listing, dirs, trace>>

\* The caller's context is cancelled or reaches its deadline.
CtxEnd(c) ==
    /\ ctx[c] = "active"
    /\ \E e \in CtxErrors : ctx' = [ctx EXCEPT ![c] = e]
    /\ ctxEndAt' = [ctxEndAt EXCEPT ![c] = Len(trace)]
    /\ UNCHANGED <<call, listing, ctl, dirs, trace>>

----------------------------------------------------------------------------
\* Specification

Ops == {"Mount", "Resolve", "Unplug"}

\* One call of one of the three public functions, in any environment.  Only
\* Mount has the readonly and target parameters.
Init ==
    \E op \in Ops, addr \in Addrs, ro \in BOOLEAN :
      /\ op # "Mount" => ~ro
      /\ call = [c \in {1} |-> NewCall(op, addr, "/run/target", ro)]
      /\ ctx \in [{1} -> {"active"} \cup CtxErrors]
      /\ ctxEndAt = [c \in {1} |-> 0]
      /\ listing \in [{BlockPath(ScsiID(addr[1], addr[2]))} -> Listings]
      /\ ctl \in [{DeletePath(ScsiID(addr[1], addr[2]))} -> BOOLEAN]
      /\ dirs \in [{"/run/target"} -> {"absent", "dir"}]
      /\ op # "Mount" => dirs["/run/target"] = "absent"
      /\ trace = <<>>

\* Any step of call c.
Step(c) ==
    \/ CLNEntry(c)
    \/ CLNRead(c)
    \/ CLNCheck(c)
    \/ CLNSelect(c)
    \/ CLNSleep(c)
    \/ CLNPost(c)
    \/ MountMkdir(c)
    \/ MountResolved(c)
    \/ MountAttempt(c)
    \/ MountSelect(c)
    \/ MountSleep(c)
    \/ MountDefer(c)
    \/ UnplugOpen(c)
    \/ UnplugWrite(c)
    \/ UnplugKmsg(c)

Env ==
    \/ \E p \in DOMAIN listing : ListingChange(p)
    \/ \E p \in DOMAIN ctl : CtlChange(p)
    \/ \E c \in DOMAIN ctx : CtxEnd(c)

Next ==
    \/ \E c \in DOMAIN call : CLNEntry(c)
    \/ \E c \in DOMAIN call : CLNRead(c)
    \/ \E c \in DOMAIN call : CLNCheck(c)
    \/ \E c \in DOMAIN call : CLNSelect(c)
    \/ \E c \in DOMAIN call : CLNSleep(c)
    \/ \E c \in DOMAIN call : CLNPost(c)
    \/ \E c \in DOMAIN call : MountMkdir(c)
    \/ \E c \in DOMAIN call : MountResolved(c)
    \/ \E c \in DOMAIN call : MountAttempt(c)
    \/ \E c \in DOMAIN call : MountSelect(c)
    \/ \E c \in DOMAIN call : MountSleep(c)
    \/ \E c \in DOMAIN call : MountDefer(c)
    \/ \E c \in DOMAIN call : UnplugOpen(c)
    \/ \E c \in DOMAIN call : UnplugWrite(c)
    \/ \E c \in DOMAIN call : UnplugKmsg(c)
    \/ Env

Spec == Init /\ [][Next]_vars

\* The scheduler runs every call that can take a step.
LiveSpec == Spec /\ \A c \in {1} : WF_vars(Step(c))

\* The caller invokes call c once every call before it has returned.
Invoke(c) ==
    /\ call[c].pc = "pending"
    /\ \A d \in DOMAIN call : d < c => call[d].pc = "done"
    /\ call' = [call EXCEPT ![c].pc = NewCall(call[c].op, <<0, 0>>, "",
                                              FALSE).pc]
    /\ UNCHANGED <<ctx, ctxEndAt, listing, ctl, dirs, trace>>

\* Two UnplugDevice calls for the same address, the second invoked after the
\* first has returned, in any environment.
SeqInit ==
    \E addr \in Addrs :
      /\ call = [c \in {1, 2} |->
                   [NewCall("Unplug", addr, "/run/target", FALSE)
                       EXCEPT !.pc = IF c = 1 THEN @ ELSE "pending"]]
      /\ ctx \in [{1, 2} -> {"active"} \cup CtxErrors]
      /\ ctxEndAt = [c \in {1, 2} |-> 0]
      /\ listing \in [{BlockPath(ScsiID(addr[1], addr[2]))} -> Listings]
      /\ ctl \in [{DeletePath(ScsiID(addr[1], addr[2]))} -> BOOLEAN]
      /\ dirs = [t \in {"/run/target"} |-> "absent"]
      /\ trace = <<>>

SeqNext ==
    \/ \E c \in DOMAIN call : Invoke(c)
    \/ \E c \in DOMAIN call : UnplugOpen(c)
    \/ \E c \in DOMAIN call : UnplugWrite(c)
    \/ \E c \in DOMAIN call : UnplugKmsg(c)
    \/ Env

SeqSpec == SeqInit /\ [][SeqNext]_vars

\* The inputs of two concurrent calls: distinct addresses and targets.
ConcAddrs == <<<<2, 3>>, <<2, 4>>>>
ConcTargets == <<"/run/target", "/run/other">>

\* What the listings hold in the concurrent runs: nothing yet, or the one
\* entry of the device.
ConcListings ==
    {[st |-> "absent", names |-> <<>>], [st |-> "ok", names |-> <<"sda">>]}

\* A Mount and, concurrently, a call of any of the three public functions
\* for another address and target.  The contexts are done or not from the
\* start, and each loop is left one sleep.
ConcInit ==
    \E op \in Ops :
      /\ call = [c \in {1, 2} |->
                   [NewCall(IF c = 1 THEN "Mount" ELSE op, ConcAddrs[c],
                            ConcTargets[c], c = 1)
                       EXCEPT !.polls = MaxPolls - 1,
                              !.retries = MaxRetries - 1]]
      /\ ctx \in [{1, 2} -> {"active", "Canceled"}]
      /\ ctxEndAt = [c \in {1, 2} |-> 0]
      /\ listing \in [{BlockPath(ScsiID(ConcAddrs[c][1], ConcAddrs[c][2])) :
                          c \in {1, 2}} -> ConcListings]
      /\ ctl \in [{DeletePath(ScsiID(ConcAddrs[2][1], ConcAddrs[2][2]))}
                    -> BOOLEAN]
      /\ dirs \in [{ConcTargets[c] : c \in {1, 2}} -> {"absent", "dir"}]
      /\ trace = <<>>

\* The steps of the calls, in any interleaving; the environment changes
\* only by the calls' own operations.
ConcNext ==
    \/ \E c \in DOMAIN call : CLNEntry(c)
    \/ \E c \in DOMAIN call : CLNRead(c)
    \/ \E c \in DOMAIN call : CLNCheck(c)
    \/ \E c \in DOMAIN call : CLNSelect(c)
    \/ \E c \in DOMAIN call : CLNSleep(c)
    \/ \E c \in DOMAIN call : CLNPost(c)
    \/ \E c \in DOMAIN call : MountMkdir(c)
    \/ \E c \in DOMAIN call : MountResolved(c)
    \/ \E c \in DOMAIN call : MountAttempt(c)
    \/ \E c \in DOMAIN call : MountSelect(c)
    \/ \E c \in DOMAIN call : MountSleep(c)
    \/ \E c \in DOMAIN call : MountDefer(c)
    \/ \E c \in DOMAIN call : UnplugOpen(c)
    \/ \E c \in DOMAIN call : UnplugWrite(c)
    \/ \E c \in DOMAIN call : UnplugKmsg(c)

ConcSpec == ConcInit /\ [][ConcNext]_vars

TypeOK ==
    /\ \A c \in DOMAIN call : call[c].polls \in 0..MaxPolls + 1
    /\ \A c \in DOMAIN call : call[c].retries \in 0..MaxRetries + 1

----------------------------------------------------------------------------
\* Observations on the trace, used to state the properties

Calls == DOMAIN call

\* The events of call c, in order.
EventsOf(c) == SelectSeq(trace, LAMBDA e : e.c = c)

IsPollEvent(e) ==
    \/ e.ev = "read"
    \/ e.ev \in {"select", "sleep"} /\ e.a = "poll"

IsMountLoopEvent(e) ==
    \/ e.ev = "mount"
    \/ e.ev \in {"select", "sleep"} /\ e.a = "mount"

\* The events of the listing poll loop, and of the mount retry loop, of c.
PollEvents(c) == SelectSeq(trace, LAMBDA e : e.c = c /\ IsPollEvent(e))
MountLoopEvents(c) ==
    SelectSeq(trace, LAMBDA e : e.c = c /\ IsMountLoopEvent(e))
MountEvents(c) == SelectSeq(trace, LAMBDA e : e.c = c /\ e.ev = "mount")

Last(s) == s[Len(s)]

Has(c, ev) == \E i \in DOMAIN trace : trace[i].c = c /\ trace[i].ev = ev

MkdirOk(c) ==
    \E i \in DOMAIN trace :
        trace[i].c = c /\ trace[i].ev = "mkdir" /\ trace[i].r = "nil"

TargetExisted(c) ==
    \E i \in DOMAIN trace :
        trace[i].c = c /\ trace[i].ev = "mkdir" /\ trace[i].a.existed

\* The call has returned to its caller.
Returned(c) == call[c].pc = "done"

\* ControllerLunToName, called by c, has returned.
CLNReturned(c) ==
    \/ call[c].op = "Resolve" /\ call[c].pc = "done"
    \/ call[c].op = "Mount" /\
         call[c].pc \in {"Mount_resolved", "Mount_mount", "Mount_select",
                         "Mount_sleep", "Mount_defer"}
    \/ call[c].op = "Mount" /\ call[c].pc = "done" /\ MkdirOk(c)

\* A read that saw nothing: the listing was absent or empty.
SawNothing(e) == e.ev = "read" /\ e.r.err # "EIO" /\ Len(e.r.names) = 0

----------------------------------------------------------------------------
\* Properties

\* C1: a Mount call whose directory creation succeeded and which returns an
\* error leaves the target absent, also when the target existed before.
C1_RollbackLeavesTargetAbsent ==
    \A c \in Calls :
        (call[c].op = "Mount" /\ Returned(c) /\ MkdirOk(c)
            /\ call[c].err # "nil")
        => dirs[call[c].target] = "absent"

\* A pre-existing target was removed after the context ended in the mount
\* retry loop.
C1_Witness ==
    \E c \in Calls :
        /\ call[c].op = "Mount" /\ Returned(c) /\ MkdirOk(c)
        /\ TargetExisted(c)
        /\ call[c].err \in CtxErrors
        /\ Len(MountEvents(c)) > 0
        /\ dirs[call[c].target] = "absent"

\* C2: ControllerLunToName returns a device path only after a read that saw
\* exactly one entry, returns the context's error only when the context is
\* done, and does not return at all after a read that saw nothing while the
\* context was seen active.
C2_ResolveWaitsForListing ==
    \A c \in Calls :
        /\ (CLNReturned(c) /\ call[c].retErr = "nil") =>
              /\ Len(PollEvents(c)) > 0
              /\ Last(PollEvents(c)).ev = "read"
              /\ Len(Last(PollEvents(c)).r.names) = 1
        /\ (CLNReturned(c) /\ call[c].retErr \in CtxErrors) =>
              /\ ctx[c] = call[c].retErr
              /\ Last(PollEvents(c)).ev = "select"
              /\ Last(PollEvents(c)).r = TRUE
        /\ (Len(PollEvents(c)) > 0 /\ SawNothing(Last(PollEvents(c)))) =>
              call[c].pc \in {"CLN_check", "CLN_select"}
        /\ (Len(PollEvents(c)) > 0 /\ Last(PollEvents(c)).ev = "select"
              /\ Last(PollEvents(c)).r = FALSE) =>
              call[c].pc = "CLN_sleep"
        /\ (Len(PollEvents(c)) > 0 /\ Last(PollEvents(c)).ev = "sleep") =>
              call[c].pc = "CLN_read"

\* The listing was absent or empty for two reads and then held one entry.
C2_Witness ==
    \E c \in Calls :
        /\ CLNReturned(c) /\ call[c].retErr = "nil"
        /\ call[c].polls = 2
        /\ ctx[c] = "active"

\* The calls the liveness properties speak about.
LiveCalls == {1}

ListingOf(c) == listing[BlockPath(ScsiID(call[c].controller, call[c].lun))]

\* The call is in the poll loop and its next decision depends on a read
\* still to come or on a read that saw nothing.
Waiting(c) ==
    \/ call[c].pc \in {"CLN_read", "CLN_sleep"}
    \/ /\ call[c].pc \in {"CLN_check", "CLN_select"}
       /\ AfterRead(call[c].deviceNames, call[c].rerr) = "wait"

\* As Waiting, and the poll budget of the model is not used up.
Polling(c) ==
    \/ call[c].pc \in {"CLN_read", "CLN_sleep"}
    \/ Waiting(c) /\ call[c].polls < MaxPolls

PopulatedWith(c, n) ==
    ListingOf(c) = [st |-> "ok", names |-> <<n>>] /\ ctx[c] = "active"

NotPopulated(c) ==
    ListingOf(c) \in {[st |-> "absent", names |-> <<>>],
                      [st |-> "ok", names |-> <<>>]}

ResolvedTo(c, n) ==
    CLNReturned(c) /\ call[c].retPath = DevicePath(n) /\ call[c].retErr = "nil"

\* C3: under fair scheduling a polling ControllerLunToName returns /dev/E
\* once the listing holds exactly the entry E for good while the context
\* stays active, and returns the context's error when the listing never
\* gets populated and the context ends.
C3_ResolveTerminates ==
    \A c \in LiveCalls :
        /\ \A n \in {"sda", "sdb"} :
              [](Polling(c) /\ [] PopulatedWith(c, n) => <> ResolvedTo(c, n))
        /\ [](Waiting(c) /\ [] NotPopulated(c) /\ <> CtxDone(c)
                => <>(CLNReturned(c) /\ call[c].retErr = ctx[c]
                        /\ call[c].retErr \in CtxErrors))

\* The listing got its entry after a sleep and the call returned the path.
C3_Witness ==
    \E c \in Calls :
        /\ ResolvedTo(c, "sdb")
        /\ Len(PollEvents(c)) > 2
        /\ SawNothing(PollEvents(c)[1])

\* C4: a read that sees exactly one entry E is the last event of the poll
\* loop (no select, no sleep, no further read) and ControllerLunToName
\* returns (/dev/E, nil), whatever the state of the context.
C4_OneEntryReturnsAtOnce ==
    \A c \in Calls :
        \A i \in DOMAIN PollEvents(c) :
            LET e == PollEvents(c)[i] IN
            (e.ev = "read" /\ e.r.err = "nil" /\ Len(e.r.names) = 1) =>
                /\ i = Len(PollEvents(c))
                /\ \/ call[c].pc \in {"CLN_check", "CLN_post"}
                   \/ ResolvedTo(c, e.r.names[1])

\* The first read saw one entry under a context that was done from the start.
C4_Witness ==
    \E c \in Calls :
        /\ ctx[c] # "active" /\ ctxEndAt[c] = 0
        /\ call[c].op = "Resolve" /\ Returned(c)
        /\ Len(PollEvents(c)) = 1
        /\ ResolvedTo(c, "sda")

\* C5: a read that sees two or more entries is the last event of the poll
\* loop and ControllerLunToName returns the ambiguous-device error and no
\* path.
C5_ManyEntriesFailAtOnce ==
    \A c \in Calls :
        \A i \in DOMAIN PollEvents(c) :
            LET e == PollEvents(c)[i] IN
            (e.ev = "read" /\ e.r.err = "nil" /\ Len(e.r.names) > 1) =>
                /\ i = Len(PollEvents(c))
                /\ \/ call[c].pc \in {"CLN_check", "CLN_post"}
                   \/ /\ CLNReturned(c)
                      /\ call[c].retErr = "ambiguous"
                      /\ call[c].retPath = <<>>

\* Two entries showed up after a sleep.
C5_Witness ==
    \E c \in Calls :
        /\ CLNReturned(c) /\ call[c].retErr = "ambiguous"
        /\ Len(PollEvents(c)) > 1

\* Mount has left its retry loop and is returning (the deferred rollback is
\* about to run or has run).
MountLeaving(c) ==
    call[c].op = "Mount" /\ call[c].pc \in {"Mount_defer", "done"}

Removed(c) ==
    /\ \E i \in DOMAIN trace : trace[i].c = c /\ trace[i].ev = "remove"
    /\ dirs[call[c].target] = "absent"

\* C6: an ENOENT from a mount attempt is never what Mount returns.  After
\* such an attempt Mount is still in its retry loop, or it is returning nil
\* after a later successful attempt, the error of a later failed attempt, or
\* the context's error after seeing the context done; in the last two cases
\* the target has been removed once Mount has returned.
C6_MountRetriesOnENOENT ==
    \A c \in Calls :
        (\E i \in DOMAIN MountEvents(c) : MountEvents(c)[i].r = "ENOENT") =>
            LET loop == MountLoopEvents(c)
                lastMount == Last(MountEvents(c))
            IN
            /\ call[c].err # "ENOENT"
            /\ call[c].pc \in {"Mount_mount", "Mount_select", "Mount_sleep",
                               "Mount_defer", "done"}
            /\ MountLeaving(c) =>
                  \/ call[c].err = "nil" /\ lastMount.r = "nil"
                        /\ Last(loop).ev = "mount"
                  \/ call[c].err = "EINVAL" /\ lastMount.r = "EINVAL"
                        /\ Last(loop).ev = "mount"
                  \/ call[c].err \in CtxErrors /\ call[c].err = ctx[c]
                        /\ lastMount.r = "ENOENT"
                        /\ Last(loop).ev = "select" /\ Last(loop).r = TRUE
            /\ (Returned(c) /\ call[c].err # "nil") => Removed(c)

\* An ENOENT was absorbed: the second attempt succeeded.
C6_Witness ==
    \E c \in Calls :
        /\ Returned(c) /\ call[c].err = "nil"
        /\ Len(MountEvents(c)) = 2
        /\ MountEvents(c)[1].r = "ENOENT"

\* C7: when Mount returns nil the target was created, the last mount attempt
\* succeeded and every earlier one failed with ENOENT, the call removed
\* nothing, and the target is present.
C7_MountSuccess ==
    \A c \in Calls :
        (call[c].op = "Mount" /\ Returned(c) /\ call[c].err = "nil") =>
            /\ MkdirOk(c)
            /\ Len(MountEvents(c)) > 0
            /\ \A i \in DOMAIN MountEvents(c) :
                  MountEvents(c)[i].r =
                      IF i = Len(MountEvents(c)) THEN "nil" ELSE "ENOENT"
            /\ ~Has(c, "remove")
            /\ dirs[call[c].target] = "mounted"

\* The first attempt succeeded under a context that was done from the start.
C7_Witness ==
    \E c \in Calls :
        /\ call[c].op = "Mount" /\ Returned(c) /\ call[c].err = "nil"
        /\ ctx[c] # "active" /\ ctxEndAt[c] = 0
        /\ Len(MountEvents(c)) = 1

\* The events of c logged after its context ended.
AfterCtxEnd(c, evs) ==
    {i \in DOMAIN trace :
        /\ ctx[c] # "active" /\ i > ctxEndAt[c]
        /\ trace[i].c = c /\ trace[i].ev \in evs}

\* In the event sequence of one loop: a select follows every transient
\* failure, a sleep follows only a select that saw the context active, and
\* a select that saw the context done is the last event.
LoopChecksCtx(loop, transient(_)) ==
    \A i \in DOMAIN loop :
        /\ (transient(loop[i]) /\ i < Len(loop)) => loop[i + 1].ev = "select"
        /\ loop[i].ev = "sleep" =>
              i > 1 /\ loop[i - 1].ev = "select" /\ loop[i - 1].r = FALSE
        /\ (loop[i].ev = "select" /\ loop[i].r = TRUE) => i = Len(loop)

MountENOENT(e) == e.ev = "mount" /\ e.r = "ENOENT"

\* C8: in both retry loops the context is checked after every transient
\* failure and before every sleep, nothing of the loop follows a check that
\* saw the context done, at most one read and one mount attempt are made
\* after the context ended, and the error returned after such a check is the
\* context's own error.
C8_LoopsObeyContext ==
    \A c \in Calls :
        /\ LoopChecksCtx(PollEvents(c), SawNothing)
        /\ LoopChecksCtx(MountLoopEvents(c), MountENOENT)
        /\ Cardinality(AfterCtxEnd(c, {"read"})) <= 1
        /\ Cardinality(AfterCtxEnd(c, {"mount"})) <= 1
        /\ (Len(PollEvents(c)) > 0 /\ Last(PollEvents(c)).ev = "select"
              /\ Last(PollEvents(c)).r = TRUE) =>
              CLNReturned(c) /\ call[c].retErr = ctx[c]
        /\ (Len(MountLoopEvents(c)) > 0
              /\ Last(MountLoopEvents(c)).ev = "select"
              /\ Last(MountLoopEvents(c)).r = TRUE) =>
              MountLeaving(c) /\ call[c].err = ctx[c]

\* The deadline passed while the mount retry loop slept: one more attempt
\* was made and Mount returned the deadline error.
C8_Witness ==
    \E c \in Calls :
        /\ Returned(c) /\ call[c].err = "DeadlineExceeded"
        /\ Cardinality(AfterCtxEnd(c, {"mount"})) = 1
        /\ Cardinality(AfterCtxEnd(c, {"sleep"})) = 1
        /\ Len(MountEvents(c)) = 2

IsTriggerWrite(c, e) ==
    /\ e.ev = "write"
    /\ e.a.file = DeletePath(ScsiID(call[c].controller, call[c].lun))
    /\ e.a.payload = <<"1", "\n">>

\* C9: Unplug returns nil when the delete file was opened and the write of
\* the trigger payload succeeded.
C9_UnplugWriteOkReturnsNil ==
    \A c \in Calls :
        (/\ call[c].op = "Unplug" /\ Returned(c)
         /\ \E i \in DOMAIN trace :
               trace[i].c = c /\ trace[i].ev = "open" /\ trace[i].r = "nil"
         /\ \E i \in DOMAIN trace :
               trace[i].c = c /\ IsTriggerWrite(c, trace[i])
                   /\ trace[i].r = "nil")
        => call[c].err = "nil"

\* C10: when the open of the delete file fails with ENOENT, Unplug has
\* returned nil and the open is the only thing the call did.
C10_UnplugAbsentIsSuccess ==
    \A c \in Calls :
        (\E i \in DOMAIN trace :
            trace[i].c = c /\ trace[i].ev = "open" /\ trace[i].r = "ENOENT")
        => /\ Returned(c) /\ call[c].err = "nil"
           /\ Len(EventsOf(c)) = 1

\* Unplug of a device whose delete file is absent has returned.
C10_Witness ==
    \E c \in Calls :
        /\ call[c].op = "Unplug" /\ Returned(c) /\ call[c].err = "nil"
        /\ Len(EventsOf(c)) = 1
        /\ EventsOf(c)[1].ev = "open" /\ EventsOf(c)[1].r = "ENOENT"

\* The trigger writes of c.
TriggerWrites(c) ==
    {i \in DOMAIN trace : trace[i].c = c /\ IsTriggerWrite(c, trace[i])}

\* C12: Unplug writes the trigger payload at most once.  A failed trigger
\* write is the last thing the call does and its error is what the call
\* returns; a failed open other than ENOENT is the only thing the call does
\* and its error is what the call returns.
C12_UnplugNoRetry ==
    \A c \in Calls :
        /\ Cardinality(TriggerWrites(c)) <= 1
        /\ \A i \in TriggerWrites(c) :
              trace[i].r # "nil" =>
                  /\ Returned(c) /\ call[c].err = trace[i].r
                  /\ Len(EventsOf(c)) = 2
                  /\ Last(EventsOf(c)) = trace[i]
        /\ \A i \in DOMAIN trace :
              (trace[i].c = c /\ trace[i].ev = "open"
                  /\ trace[i].r \notin {"nil", "ENOENT"}) =>
                  /\ Returned(c) /\ call[c].err = trace[i].r
                  /\ Len(EventsOf(c)) = 1

\* The open was refused for a reason other than non-existence.
C12_Witness ==
    \E c \in Calls :
        /\ call[c].op = "Unplug" /\ Returned(c) /\ call[c].err = "EACCES"
        /\ Len(EventsOf(c)) = 1 /\ EventsOf(c)[1].ev = "open"

\* C13: every mount attempt uses ext4; a read-only Mount passes MS_RDONLY
\* and "noload", a read-write Mount passes no flag and no option.
C13_MountParameters ==
    \A c \in Calls :
        \A i \in DOMAIN MountEvents(c) :
            LET a == MountEvents(c)[i].a IN
            /\ a.fstype = "ext4"
            /\ call[c].readonly => a.flags = MS_RDONLY /\ a.data = "noload"
            /\ ~call[c].readonly => a.flags = 0 /\ a.data = ""

\* A read-only Mount retried its mount.
C13_Witness ==
    \E c \in Calls :
        /\ call[c].readonly
        /\ Len(MountEvents(c)) = 2
        /\ MountEvents(c)[2].a.data = "noload"

\* The error the public function called by c returns.
ResultErr(c) == IF call[c].op = "Resolve" THEN call[c].retErr ELSE call[c].err

\* A kernel-interface operation that failed, other than the two absorbed
\* cases: a listing or device node that is not there yet, and an absent
\* delete file.
Failed(e) ==
    \/ e.ev \in {"mount", "open", "write"} /\ e.r # "nil"
    \/ e.ev = "read" /\ e.r.err # "nil"

Absorbed(e) ==
    \/ e.ev = "read" /\ e.r.err = "ENOENT"
    \/ e.ev = "mount" /\ e.r = "ENOENT"
    \/ e.ev = "open" /\ e.r = "ENOENT"

\* C15: a call in which a read, mount, open or write failed, other than the
\* absorbed cases, returns a non-nil error.
C15_FailuresPropagate ==
    \A c \in Calls :
        (Returned(c) /\ \E i \in DOMAIN trace :
            trace[i].c = c /\ Failed(trace[i]) /\ ~Absorbed(trace[i]))
        => ResultErr(c) # "nil"

\* A Mount whose second attempt failed with EINVAL returned it.
C15_Witness ==
    \E c \in Calls :
        /\ Returned(c) /\ call[c].err = "EINVAL"
        /\ Len(MountEvents(c)) = 2
        /\ MountEvents(c)[1].r = "ENOENT"

\* C16: when the creation of the target fails, Mount has returned that error
\* and the mkdir is the only thing the call did: no removal, no read of the
\* listing, no mount attempt.
C16_MkdirFailureReturns ==
    \A c \in Calls :
        \A i \in DOMAIN trace :
            (trace[i].c = c /\ trace[i].ev = "mkdir" /\ trace[i].r # "nil")
            => /\ Returned(c) /\ call[c].err = trace[i].r
               /\ Len(EventsOf(c)) = 1
               /\ call[c].retries = 0 /\ call[c].polls = 0
               /\ call[c].blockPath = <<>>

\* The creation failed on a target that existed and the target is kept.
C16_Witness ==
    \E c \in Calls :
        /\ call[c].op = "Mount" /\ Returned(c) /\ call[c].err = "EACCES"
        /\ TargetExisted(c)
        /\ dirs[call[c].target] = "dir"

\* The positions in the trace of the events ev of c.
At(c, ev) == {i \in DOMAIN trace : trace[i].c = c /\ trace[i].ev = ev}

\* C17: in a Mount the mkdir precedes every read of the listing and every
\* read precedes every mount attempt; when the resolution failed Mount
\* returns the resolver's error, has made no mount attempt, and has removed
\* the target when it has returned.
C17_MountOrder ==
    \A c \in Calls :
        call[c].op = "Mount" =>
            /\ \A i \in At(c, "mkdir") : \A j \in At(c, "read") : i < j
            /\ \A i \in At(c, "read") : \A j \in At(c, "mount") : i < j
            /\ At(c, "mount") # {} => At(c, "read") # {}
            /\ (CLNReturned(c) /\ call[c].retErr # "nil") =>
                  /\ At(c, "mount") = {}
                  /\ call[c].pc \in {"Mount_resolved", "Mount_defer", "done"}
                  /\ call[c].pc # "Mount_resolved" =>
                        call[c].err = call[c].retErr
                  /\ Returned(c) =>
                        /\ Removed(c)
                        /\ Last(EventsOf(c)).ev = "remove"

\* The resolution failed with the ambiguous-device error and the target was
\* removed.
C17_Witness ==
    \E c \in Calls :
        /\ call[c].op = "Mount" /\ Returned(c)
        /\ call[c].err = "ambiguous"
        /\ Removed(c)

\* C18: a read that fails with an error other than ENOENT is the last event
\* of the poll loop (no select, no sleep, no further read) and
\* ControllerLunToName returns that error and no path.
C18_ReadErrorReturnsAtOnce ==
    \A c \in Calls :
        \A i \in DOMAIN PollEvents(c) :
            LET e == PollEvents(c)[i] IN
            (e.ev = "read" /\ e.r.err \notin {"nil", "ENOENT"}) =>
                /\ i = Len(PollEvents(c))
                /\ \/ call[c].pc = "CLN_check"
                   \/ /\ CLNReturned(c)
                      /\ call[c].retErr = e.r.err
                      /\ call[c].retPath = <<>>

\* The second read failed with an I/O error under an active context.
C18_Witness ==
    \E c \in Calls :
        /\ CLNReturned(c) /\ call[c].retErr = "EIO"
        /\ Len(PollEvents(c)) > 1
        /\ ctx[c] = "active"

\* C19: all mount attempts of a Mount have the same source, target, flags
\* and option, the source is the path the resolver returned from its last
\* read, and no read of the listing follows a mount attempt.
C19_ResolvedOnce ==
    \A c \in Calls :
        /\ \A i, j \in DOMAIN MountEvents(c) :
              MountEvents(c)[i].a = MountEvents(c)[j].a
        /\ \A i \in DOMAIN MountEvents(c) :
              /\ MountEvents(c)[i].a.source = call[c].retPath
              /\ MountEvents(c)[i].a.target = call[c].target
              /\ Last(PollEvents(c)).ev = "read"
              /\ Len(Last(PollEvents(c)).r.names) = 1
              /\ MountEvents(c)[i].a.source =
                    DevicePath(Last(PollEvents(c)).r.names[1])
        /\ \A i \in At(c, "mount") : \A j \in At(c, "read") : j < i

\* Three mount attempts were made while the listing changed its entry.
C19_Witness ==
    \E c \in Calls :
        /\ Len(MountEvents(c)) = 3
        /\ MountEvents(c)[1].a.source = DevicePath("sda")
        /\ ListingOf(c) = [st |-> "ok", names |-> <<"sdb">>]

ResolveResults == {"nil", "ambiguous", "EIO"} \cup CtxErrors

\* C20: ControllerLunToName leaves its poll loop only with a non-empty
\* listing and never returns the "no matching device names" error: it
\* returns a path, the ambiguous-device error, the read error or the
\* context's error.
C20_NoMatchUnreachable ==
    \A c \in Calls :
        /\ call[c].pc = "CLN_post" => Len(call[c].deviceNames) > 0
        /\ call[c].retErr # "nomatch"
        /\ CLNReturned(c) =>
              /\ call[c].retErr \in ResolveResults
              /\ call[c].retErr = "nil" <=> call[c].retPath # <<>>

\* The loop was left after reads that saw nothing.
C20_Witness ==
    \E c \in Calls :
        /\ call[c].pc = "CLN_post"
        /\ call[c].polls = 2

\* The open of c found the delete file absent.
FoundGone(c) ==
    \E i \in DOMAIN trace :
        trace[i].c = c /\ trace[i].ev = "open" /\ trace[i].r = "ENOENT"

OpenedOk(c) ==
    \E i \in DOMAIN trace :
        trace[i].c = c /\ trace[i].ev = "open" /\ trace[i].r = "nil"

\* C11: of two successive UnplugDevice calls for one address, each call
\* that finds the delete file absent returns nil with the open as its only
\* operation, and a step of a call changes the listing or the delete file
\* only when that call's open succeeded.
C11_UnplugIdempotent ==
    /\ [](\A c \in {1, 2} :
            FoundGone(c) =>
                /\ Returned(c) /\ call[c].err = "nil"
                /\ Len(EventsOf(c)) = 1)
    /\ [][\A c \in {1, 2} :
            (call'[c] # call[c] /\ <<listing, ctl>>' # <<listing, ctl>>)
                => OpenedOk(c)]_vars

\* Both calls found the device gone and returned nil.
C11_Witness ==
    /\ \A c \in {1, 2} : FoundGone(c) /\ Returned(c) /\ call[c].err = "nil"
    /\ Len(trace) = 2

\* What belongs to call c: its target directory, the listing of its
\* address, and the operations it has performed.
OwnState(c) == <<dirs[call[c].target], ListingOf(c), EventsOf(c)>>

====
